---- MODULE Spec2Model ----
(***************************************************************************)
(* One-Minute Story Crafter: the POST /api/generate route handler           *)
(* (src/src/app/api/generate/route.ts), the form view                       *)
(* (src/agentic-story/src/app/page.tsx) and the story generator the route   *)
(* imports from "@/lib/story-generator", whose file is not part of the      *)
(* inspected sources and is modelled from its written contract.            *)
(*                                                                         *)
(* A string is a sequence of one-character strings.  A text produced by    *)
(* the generator is a sequence of strings too (template words and the      *)
(* characters of the inputs woven into them).                              *)
(***************************************************************************)
EXTENDS Integers, Sequences, FiniteSets, TLC

\* ------------------------------------------------------------------ bounds
\* Longest genre / setting string a direct API client sends.
MaxLen == 2

\* ------------------------------------------------------------- characters
Space == " "
Chars == {Space, "a", "A"}

RECURSIVE StrsUpTo(_)
StrsUpTo(n) ==
    IF n = 0 THEN {<<>>}
    ELSE LET shorter == StrsUpTo(n - 1)
         IN  shorter \cup {Append(s, c) : s \in {t \in shorter : Len(t) = n - 1}, c \in Chars}

\* String.prototype.trim: drops the leading and trailing white space.
RECURSIVE trimStart(_)
trimStart(s) ==
    IF s = <<>> THEN s
    ELSE IF Head(s) = Space THEN trimStart(Tail(s)) ELSE s

RECURSIVE trimEnd(_)
trimEnd(s) ==
    IF s = <<>> THEN s
    ELSE IF s[Len(s)] = Space THEN trimEnd(SubSeq(s, 1, Len(s) - 1)) ELSE s

trim(s) == trimEnd(trimStart(s))

\* String.prototype.toLowerCase: each upper-case letter becomes its
\* lower-case letter, every other character stays.
UpperLetters == <<"A", "B", "C", "D", "E", "F", "G", "H", "I", "J", "K", "L", "M",
                  "N", "O", "P", "Q", "R", "S", "T", "U", "V", "W", "X", "Y", "Z">>
LowerLetters == <<"a", "b", "c", "d", "e", "f", "g", "h", "i", "j", "k", "l", "m",
                  "n", "o", "p", "q", "r", "s", "t", "u", "v", "w", "x", "y", "z">>

lowerChar(c) ==
    LET at == {i \in 1..Len(UpperLetters) : UpperLetters[i] = c}
    IN  IF at = {} THEN c ELSE LowerLetters[CHOOSE i \in at : TRUE]

toLowerCase(s) == [i \in 1..Len(s) |-> lowerChar(s[i])]

\* --------------------------------------------------------------- literals
adventure == <<"a", "d", "v", "e", "n", "t", "u", "r", "e">>
mystery == <<"m", "y", "s", "t", "e", "r", "y">>
romance == <<"r", "o", "m", "a", "n", "c", "e">>
scifi == <<"s", "c", "i", "f", "i">>
fantasy == <<"f", "a", "n", "t", "a", "s", "y">>
drama == <<"d", "r", "a", "m", "a">>

\* Variant of the genre fallback: capitalised.
DefaultGenre_Capitalised == <<"A", "d", "v", "e", "n", "t", "u", "r", "e">>

\* The fallbacks of route.ts lines 8-11.
DefaultGenre == adventure
DefaultSetting == <<"a", " ", "c", "i", "t", "y", " ", "p", "e", "r", "c", "h", "e", "d", " ", "b", "e", "t", "w", "e", "e", "n", " ", "d", "u", "s", "k", " ", "a", "n", "d", " ", "d", "a", "w", "n">>
DefaultProtagonist == <<"a", " ", "r", "e", "s", "t", "l", "e", "s", "s", " ", "s", "t", "o", "r", "y", "t", "e", "l", "l", "e", "r">>
DefaultVibe == <<"e", "l", "e", "c", "t", "r", "i", "c", " ", "h", "o", "p", "e">>

\* The option values of the genre select.
genres == <<adventure, mystery, romance, scifi, fantasy, drama>>

\* ------------------------------------------------------------------ texts
Digit(n) == <<"0", "1", "2", "3", "4", "5", "6", "7", "8", "9">>[n + 1]

\* Joins texts with a separator text between neighbours.
RECURSIVE Join(_, _)
Join(texts, sep) ==
    IF texts = <<>> THEN <<>>
    ELSE IF Len(texts) = 1 THEN texts[1]
    ELSE texts[1] \o sep \o Join(Tail(texts), sep)

RECURSIVE Sum(_)
Sum(ns) == IF ns = <<>> THEN 0 ELSE Head(ns) + Sum(Tail(ns))

\* --------------------------------------------- the generator (contract)
\* "@/lib/story-generator" is imported by the route but its file is not
\* among the sources; what follows is its written contract: resource
\* tables, narrative composer, beat-to-scene mapper, production notes and
\* the generateStory facade.  The wording of the templates is a choice of
\* the model; the structure is the contract's.
SceneCount == 12
TotalSeconds == 60
BeatCount == 4

\* Resource tables: one bundle per catalog genre.
Bundles ==
    <<[key |-> adventure, tone |-> "bold", pace |-> "brisk",
       imagery |-> "windswept",
       camera |-> <<"push-in", "crane-up", "tracking">>,
       sound |-> <<"drums", "wind", "brass">>],
      [key |-> mystery, tone |-> "tense", pace |-> "measured",
       imagery |-> "fog-bound",
       camera |-> <<"slow-dolly", "dutch-tilt", "rack-focus">>,
       sound |-> <<"clock", "rain", "strings">>],
      [key |-> romance, tone |-> "tender", pace |-> "lingering",
       imagery |-> "candle-lit",
       camera |-> <<"soft-orbit", "close-up", "drift">>,
       sound |-> <<"piano", "breath", "cello">>],
      [key |-> scifi, tone |-> "sleek", pace |-> "propulsive",
       imagery |-> "chrome",
       camera |-> <<"whip-pan", "gimbal-glide", "zoom-burst">>,
       sound |-> <<"synth", "hum", "pulse">>],
      [key |-> fantasy, tone |-> "wondrous", pace |-> "sweeping",
       imagery |-> "moonlit",
       camera |-> <<"aerial", "reveal", "arc">>,
       sound |-> <<"choir", "harp", "horn">>],
      [key |-> drama, tone |-> "raw", pace |-> "steady",
       imagery |-> "rain-streaked",
       camera |-> <<"handheld", "static", "slow-zoom">>,
       sound |-> <<"silence", "heartbeat", "swell">>]>>

\* Case-insensitive match against the catalog; an unmatched genre resolves
\* to the default ("adventure") bundle.
resolveBundle(genre) ==
    LET key == toLowerCase(genre)
        hits == {i \in 1..Len(Bundles) : Bundles[i].key = key}
    IN  IF hits = {} THEN Bundles[1] ELSE Bundles[CHOOSE i \in hits : TRUE]

\* Narrative composer: four beats in narrative order, each weaving the
\* inputs in verbatim.
composeBeats(request, bundle) ==
    <<[label |-> "Setup",
       description |-> request.protagonist \o <<" ", "arrives", " ", "in", " ">> \o request.setting],
      [label |-> "Complication",
       description |-> <<"A", " ", bundle.imagery, " ", "obstacle", " ", "tests", " ">> \o request.protagonist],
      [label |-> "Turn",
       description |-> request.vibe \o <<" ", "turns", " ", "the", " ", bundle.tone, " ", "moment">>],
      [label |-> "Resolution",
       description |-> request.protagonist \o <<" ", "carries", " ">> \o request.vibe \o <<" ", "home">>]>>

\* The narrative is the beats' sentences in order.
composeNarrative(beats) ==
    Join([i \in 1..Len(beats) |-> beats[i].description \o <<".">>], <<" ">>)

\* Whitespace-token count of a text.
wordCountOf(text) ==
    Cardinality({i \in 1..Len(text) :
        /\ text[i] # Space
        /\ (i = 1 \/ text[i - 1] = Space)})

\* mm:ss
formatTimestamp(seconds) ==
    LET m == seconds \div 60
        s == seconds % 60
    IN  <<Digit(m \div 10), Digit(m % 10), ":", Digit(s \div 10), Digit(s % 10)>>

\* An even share of the timeline per scene, the remainder on the last one.
sceneDuration(i) ==
    LET share == TotalSeconds \div SceneCount
    IN  IF i < SceneCount THEN share ELSE TotalSeconds - share * (SceneCount - 1)

\* Variant: the scene's own duration is counted into its start.
sceneStart_CountsItself(i) == Sum([j \in 1..i |-> sceneDuration(j)])

\* Start of scene i: the sum of the durations before it.
sceneStart(i) == Sum([j \in 1..(i - 1) |-> sceneDuration(j)])

Qualifiers == <<"opening", "building", "landing">>

\* Beat-to-scene mapper: scenes are dealt evenly and contiguously to the
\* beats; camera and sound cycle through the bundle's pools by scene index.
buildScene(i, beats, bundle) ==
    LET perBeat == SceneCount \div BeatCount
        beat == beats[((i - 1) \div perBeat) + 1]
        slot == ((i - 1) % perBeat) + 1
    IN  [index |-> i,
         start |-> formatTimestamp(sceneStart(i)),
         end |-> formatTimestamp(sceneStart(i) + sceneDuration(i)),
         durationSeconds |-> sceneDuration(i),
         visualDirection |-> <<Qualifiers[slot], " ", bundle.imagery, " ", "view", ":", " ", beat.label>>,
         cameraMovement |-> <<bundle.camera[((i - 1) % Len(bundle.camera)) + 1]>>,
         voiceOver |-> beat.description \o <<",", " ", Qualifiers[slot], ".">>,
         textOverlay |-> <<beat.label, " ", Digit(slot)>>,
         soundDesign |-> <<bundle.sound[((i - 1) % Len(bundle.sound)) + 1]>>]

buildScenes(beats, bundle) == [i \in 1..SceneCount |-> buildScene(i, beats, bundle)]

\* Production notes: the script is the scenes' voice-over lines in index
\* order, joined by a space.
buildVoiceOverScript(scenes) ==
    Join([i \in 1..Len(scenes) |-> scenes[i].voiceOver], <<" ">>)

generateStory(request) ==
    LET bundle == resolveBundle(request.genre)
        beats == composeBeats(request, bundle)
        narrative == composeNarrative(beats)
        scenes == buildScenes(beats, bundle)
    IN  [story |-> narrative,
         wordCount |-> wordCountOf(narrative),
         beats |-> beats,
         tone |-> bundle.tone,
         pace |-> bundle.pace,
         capcut |-> [scenes |-> scenes,
                     voiceOverScript |-> buildVoiceOverScript(scenes),
                     editingNotes |-> <<<<"Cut", " ", "on", " ", bundle.pace, " ", "beats">>,
                                        <<"Grade", " ", "for", " ", "a", " ", bundle.tone, " ", "look">>>>,
                     musicDirection |-> <<"A", " ", bundle.tone, " ", "score", " ", "at", " ", "a", " ", bundle.pace, " ", "tempo">>,
                     exportTips |-> <<<<"Export", " ", "1080p">>, <<"Keep", " ", "captions", " ", "on">>>>]]

\* ------------------------------------------------------- JSON values
\* A field of the request body as request.json() yields it.
Absent == [kind |-> "absent", val |-> <<>>]
JsonNull == [kind |-> "null", val |-> <<>>]
JsonNumber == [kind |-> "number", val |-> <<>>]
JsonString(s) == [kind |-> "string", val |-> s]

\* The raw body of a request: text that is no JSON, the JSON null, a JSON
\* value with no own fields (a number, a string, an array), or an object.
MalformedBody == [kind |-> "malformed"]
NullBody == [kind |-> "null"]
ScalarBody == [kind |-> "scalar"]
ObjectBody(g, s, p, v) ==
    [kind |-> "object", genre |-> g, setting |-> s, protagonist |-> p, vibe |-> v]

FieldNames == {"genre", "setting", "protagonist", "vibe"}

\* payload.<name>: undefined when the parsed value has no such field.
field(payload, name) ==
    IF payload.kind = "object" THEN payload[name] ELSE Absent

\* ------------------------------------------------ route.ts: POST handler
Returned(v) == [threw |-> FALSE, value |-> v]
Thrown == [threw |-> TRUE, value |-> <<>>]

\* Variant: the genre is trimmed but its case is kept.
resolveGenre_KeepsCase(v) ==
    IF v.kind \in {"absent", "null"} THEN Returned(<<"a", "d", "v", "e", "n", "t", "u", "r", "e">>)
    ELSE IF v.kind # "string" THEN Thrown
    ELSE LET g == trim(v.val)
         IN  Returned(IF g = <<>> THEN <<"a", "d", "v", "e", "n", "t", "u", "r", "e">> ELSE g)

\* Variant: a genre outside the select's options is replaced by the default.
resolveGenre_CatalogOnly(v) ==
    IF v.kind \in {"absent", "null"} THEN Returned(<<"a", "d", "v", "e", "n", "t", "u", "r", "e">>)
    ELSE IF v.kind # "string" THEN Thrown
    ELSE LET g == toLowerCase(trim(v.val))
         IN  Returned(IF \E i \in 1..Len(genres) : genres[i] = g
                      THEN g ELSE <<"a", "d", "v", "e", "n", "t", "u", "r", "e">>)

\* payload.genre?.trim().toLowerCase() || "adventure"
\* The optional chain yields undefined for undefined and null; a value of
\* another type has no trim method and the call throws a TypeError.
resolveGenre(v) ==
    IF v.kind \in {"absent", "null"} THEN Returned(DefaultGenre)
    ELSE IF v.kind # "string" THEN Thrown
    ELSE LET g == toLowerCase(trim(v.val))
         IN  Returned(IF g = <<>> THEN DefaultGenre ELSE g)

\* payload.<name>?.trim() || <fallback>
resolveText(v, fallback) ==
    IF v.kind \in {"absent", "null"} THEN Returned(fallback)
    ELSE IF v.kind # "string" THEN Thrown
    ELSE LET s == trim(v.val)
         IN  Returned(IF s = <<>> THEN fallback ELSE s)

\* Variant: the envelope echoes the body's raw values, not the resolved ones.
tryBlock_EchoesRawBody(body, now) ==
    IF body.kind \in {"malformed", "null"}
    THEN [threw |-> TRUE, calls |-> <<>>]
    ELSE LET genre == resolveGenre(field(body, "genre"))
             setting == resolveText(field(body, "setting"), DefaultSetting)
             protagonist == resolveText(field(body, "protagonist"), DefaultProtagonist)
             vibe == resolveText(field(body, "vibe"), DefaultVibe)
         IN  IF genre.threw \/ setting.threw \/ protagonist.threw \/ vibe.threw
             THEN [threw |-> TRUE, calls |-> <<>>]
             ELSE LET inputs == [genre |-> genre.value, setting |-> setting.value,
                                 protagonist |-> protagonist.value, vibe |-> vibe.value]
                      raw == [name \in FieldNames |-> field(body, name).val]
                      result == generateStory(inputs)
                  IN  [threw |-> FALSE,
                       calls |-> <<inputs>>,
                       responses |-> <<[status |-> 200,
                                        body |-> [ok |-> TRUE,
                                                  generatedAt |-> now,
                                                  inputs |-> raw,
                                                  story |-> result]]>>]

\* The body of the try block, lines 6-23.  `calls` lists the arguments of
\* the generateStory calls made on the way.
tryBlock(body, now) ==
    IF body.kind \in {"malformed", "null"}
    THEN [threw |-> TRUE, calls |-> <<>>]
    ELSE LET genre == resolveGenre(field(body, "genre"))
             setting == resolveText(field(body, "setting"), DefaultSetting)
             protagonist == resolveText(field(body, "protagonist"), DefaultProtagonist)
             vibe == resolveText(field(body, "vibe"), DefaultVibe)
         IN  IF genre.threw \/ setting.threw \/ protagonist.threw \/ vibe.threw
             THEN [threw |-> TRUE, calls |-> <<>>]
             ELSE LET inputs == [genre |-> genre.value, setting |-> setting.value,
                                 protagonist |-> protagonist.value, vibe |-> vibe.value]
                      result == generateStory(inputs)
                  IN  [threw |-> FALSE,
                       calls |-> <<inputs>>,
                       responses |-> <<[status |-> 200,
                                        body |-> [ok |-> TRUE,
                                                  generatedAt |-> now,
                                                  inputs |-> inputs,
                                                  story |-> result]]>>]

GenericError == "Unable to build the story right now. Please try again in a moment."

\* Variant: no catch clause, so an exception leaves the handler.
POST_NoCatch(body, now) ==
    LET run == tryBlock(body, now)
    IN  IF run.threw
        THEN [escaped |-> TRUE, calls |-> run.calls, responses |-> <<>>]
        ELSE [escaped |-> FALSE, calls |-> run.calls, responses |-> run.responses]

\* try { ... } catch { respond 500 }: what one run of the handler did.
POST(body, now) ==
    LET run == tryBlock(body, now)
    IN  IF run.threw
        THEN [escaped |-> FALSE,
              calls |-> run.calls,
              responses |-> <<[status |-> 500,
                               body |-> [ok |-> FALSE, error |-> GenericError]]>>]
        ELSE [escaped |-> FALSE, calls |-> run.calls, responses |-> run.responses]

\* ---------------------------------------------------------------- inputs
\* What new Date().toISOString() may read.
Instants == {"2026-01-01T00:00:00.000Z", "2026-01-01T00:00:00.001Z"}

NonStrings == {Absent, JsonNull, JsonNumber}
FieldValues == NonStrings \cup {JsonString(s) : s \in StrsUpTo(MaxLen)}
ShortFieldValues == NonStrings \cup {JsonString(s) : s \in StrsUpTo(1)}

\* Genres a client may also send: catalog entries, padded and capitalised.
GenreSamples ==
    {JsonString(mystery),
     JsonString(<<" ", "D", "r", "a", "m", "a", " ">>),
     JsonString(<<"S", "C", "I", "F", "I">>)}

Bodies ==
    {MalformedBody, NullBody, ScalarBody}
    \cup {ObjectBody(g, s, p, v) : g \in FieldValues \cup GenreSamples, s \in FieldValues,
                                   p \in ShortFieldValues, v \in ShortFieldValues}

\* The body a client sends when it posts an envelope's inputs object back.
inputsBody(inputs) ==
    ObjectBody(JsonString(inputs.genre), JsonString(inputs.setting),
               JsonString(inputs.protagonist), JsonString(inputs.vibe))

\* ------------------------------------------------------------------ state
VARIABLES
    apiRequest,   \* the body of the request a client posted to the route
    apiResult,    \* what the handler did with it: calls made, responses sent
    apiPrev,      \* when the request posts an envelope's inputs back: the run
                  \* of the handler that produced that envelope
    formState,    \* page.tsx useState: the four form fields
    story,        \* page.tsx useState: the displayed response, or Null
    isLoading,    \* page.tsx useState
    error,        \* page.tsx useState: the displayed message, or NoError
    pc,           \* where the running handleSubmit stands
    reqInFlight,  \* the body handleSubmit sent, until the submission settles
    respInFlight, \* the response on its way to fetch, then held until its body is read
    shownFor,     \* the body whose response is displayed as story
    exported      \* how the last text left the view: clipboard or file, and its size

apiVars == <<apiRequest, apiResult, apiPrev>>
uiVars == <<formState, story, isLoading, error, pc, reqInFlight, respInFlight, shownFor, exported>>
vars == <<apiRequest, apiResult, apiPrev, formState, story, isLoading, error, pc,
          reqInFlight, respInFlight, shownFor, exported>>

Null == [kind |-> "null"]

\* --------------------------------------------------- page.tsx: the view
InitialSetting == <<"a", " ", "n", "e", "o", "n", " ", "s", "o", "a", "k", "e", "d", " ", "c", "i", "t", "y", " ", "h", "o", "v", "e", "r", "i", "n", "g", " ", "a", "b", "o", "v", "e", " ", "t", "h", "e", " ", "t", "i", "d", "e">>
InitialProtagonist == <<"J", "u", "l", "e", "s">>
InitialVibe == <<"e", "l", "e", "c", "t", "r", "i", "c", " ", "h", "o", "p", "e">>

\* setError(null): no message is displayed.
NoError == ""
SnagMessage == "We hit a snag while building the story. Try again."
ClipboardMessage == "Clipboard unavailable. Select and copy manually."

\* The state after the first render.
UiStart ==
    /\ formState = [genre |-> adventure, setting |-> InitialSetting,
                    protagonist |-> InitialProtagonist, vibe |-> InitialVibe]
    /\ story = Null
    /\ isLoading = FALSE
    /\ error = NoError
    /\ pc = "idle"
    /\ reqInFlight = Null
    /\ respInFlight = Null
    /\ shownFor = Null
    /\ exported = Null

\* What the user may pick or type into each field.
FormChoices ==
    [genre |-> {genres[1], genres[2]},
     setting |-> {InitialSetting, <<"Q", " ">>},
     protagonist |-> {InitialProtagonist},
     vibe |-> {InitialVibe}]

\* onChange of a field: setFormState((prev) => ({ ...prev, [name]: value })).
setFormState(name, value) ==
    /\ formState' = [formState EXCEPT ![name] = value]
    /\ UNCHANGED <<story, isLoading, error, pc, reqInFlight, respInFlight, shownFor, exported>>
    /\ UNCHANGED apiVars

\* JSON.stringify(formState)
stringify(form) ==
    ObjectBody(JsonString(form.genre), JsonString(form.setting),
               JsonString(form.protagonist), JsonString(form.vibe))

\* Response.ok
responseOk(response) == response.status >= 200 /\ response.status <= 299

\* A response that does not come from the route (a gateway's error page).
GatewayError == [status |-> 502, body |-> Null]

\* Variant: the loading flag is cleared on the success path only.
submissionFails_NoFinally ==
    /\ error' = SnagMessage
    /\ pc' = "idle"
    /\ reqInFlight' = Null
    /\ respInFlight' = Null
    /\ UNCHANGED <<formState, story, isLoading, shownFor, exported>>
    /\ UNCHANGED apiVars

\* Variant: a failed submission also clears the displayed story.
submissionFails_ClearsStory ==
    /\ error' = SnagMessage
    /\ isLoading' = FALSE
    /\ pc' = "idle"
    /\ reqInFlight' = Null
    /\ respInFlight' = Null
    /\ story' = Null
    /\ UNCHANGED <<formState, shownFor, exported>>
    /\ UNCHANGED apiVars

\* catch { setError(snag) } finally { setIsLoading(false) }
submissionFails ==
    /\ error' = SnagMessage
    /\ isLoading' = FALSE
    /\ pc' = "idle"
    /\ reqInFlight' = Null
    /\ respInFlight' = Null
    /\ UNCHANGED <<formState, story, shownFor, exported>>
    /\ UNCHANGED apiVars

\* handleSubmit up to its first await.  The form submits only when the
\* submit button is enabled (disabled={isLoading}) and the required text
\* inputs are filled.
handleSubmit ==
    /\ ~isLoading
    /\ formState.setting # <<>>
    /\ formState.protagonist # <<>>
    /\ formState.vibe # <<>>
    /\ isLoading' = TRUE
    /\ error' = NoError
    /\ reqInFlight' = stringify(formState)
    /\ pc' = "awaitFetch"
    /\ UNCHANGED <<formState, story, respInFlight, shownFor, exported>>
    /\ UNCHANGED apiVars

\* The request reaches the server and an answer sets out: the route's
\* response to the body sent, or a response from in between.
routeResponds ==
    /\ pc = "awaitFetch"
    /\ respInFlight = Null
    /\ \E now \in Instants :
         respInFlight' \in {POST(reqInFlight, now).responses[1], GatewayError}
    /\ UNCHANGED <<formState, story, isLoading, error, pc, reqInFlight, shownFor, exported>>
    /\ UNCHANGED apiVars

\* fetch resolves with the answer.  A response that is not ok throws.
fetchResolves ==
    /\ pc = "awaitFetch"
    /\ respInFlight # Null
    /\ IF responseOk(respInFlight)
       THEN /\ pc' = "awaitJson"
            /\ UNCHANGED <<formState, story, isLoading, error, reqInFlight,
                           respInFlight, shownFor, exported>>
            /\ UNCHANGED apiVars
       ELSE submissionFails

\* fetch rejects (the network is down, or the answer is lost).
fetchRejects ==
    /\ pc = "awaitFetch"
    /\ submissionFails

\* response.json() resolves: setStory(data), then the finally clause.
jsonResolves ==
    /\ pc = "awaitJson"
    /\ story' = respInFlight.body
    /\ shownFor' = reqInFlight
    /\ isLoading' = FALSE
    /\ pc' = "idle"
    /\ reqInFlight' = Null
    /\ respInFlight' = Null
    /\ UNCHANGED <<formState, error, exported>>
    /\ UNCHANGED apiVars

\* response.json() rejects (the body cannot be read or parsed).
jsonRejects ==
    /\ pc = "awaitJson"
    /\ submissionFails

\* n in decimal.
RECURSIVE numberText(_)
numberText(n) == IF n < 10 THEN <<Digit(n)>> ELSE numberText(n \div 10) \o <<Digit(n % 10)>>

\* A text with line breaks is the sequence of its lines: joining texts with
\* "\n" puts their lines one after the other, joining them with "\n\n" puts
\* an empty line between them, and a text that ends in "\n" ends with an
\* empty line.
EmptyLine == <<>>
joinNewline(texts) == Join(texts, <<>>)
joinBlankLine(texts) == Join(texts, <<EmptyLine>>)

\* Variant: the voice-over line prints the overlay text.
sceneRow_OverlayAsVoiceOver(scene) ==
    <<<<"Scene ">> \o numberText(scene.index),
      <<"Time: ">> \o scene.start \o <<" -> ">> \o scene.end
          \o <<" (">> \o numberText(scene.durationSeconds) \o <<"s)">>,
      <<"Visual: ">> \o scene.visualDirection,
      <<"Camera: ">> \o scene.cameraMovement,
      <<"Voice Over: ">> \o scene.textOverlay,
      <<"On-screen Text: ">> \o scene.textOverlay,
      <<"Sound Design: ">> \o scene.soundDesign>>

\* One scene of the breakdown: seven lines.  (The arrow of the time line is
\* written "->" here.)
sceneRow(scene) ==
    <<<<"Scene ">> \o numberText(scene.index),
      <<"Time: ">> \o scene.start \o <<" -> ">> \o scene.end
          \o <<" (">> \o numberText(scene.durationSeconds) \o <<"s)">>,
      <<"Visual: ">> \o scene.visualDirection,
      <<"Camera: ">> \o scene.cameraMovement,
      <<"Voice Over: ">> \o scene.voiceOver,
      <<"On-screen Text: ">> \o scene.textOverlay,
      <<"Sound Design: ">> \o scene.soundDesign>>

\* useMemo: the scene breakdown of the displayed story.
formattedScenes(shown) ==
    IF shown = Null \/ "story" \notin DOMAIN shown THEN <<EmptyLine>>
    ELSE LET header == <<<<"# CapCut Scene Breakdown">>, EmptyLine>>
             scenes == shown.story.capcut.scenes
             rows == joinBlankLine([i \in 1..Len(scenes) |-> sceneRow(scenes[i])])
         IN  joinNewline(<<header, rows>>)

\* The texts the buttons of the result section hand over.
copyStoryContent(shown) == <<shown.story.story>>
downloadStoryText(shown) ==
    <<shown.story.story, EmptyLine, <<"---">>, <<"Generated at ", shown.generatedAt>>>>

\* Variant: the voice-over text carries the generation time like the story file.
voiceOverContent_Stamped(shown) ==
    <<shown.story.capcut.voiceOverScript, <<"Generated at ", shown.generatedAt>>>>

voiceOverContent(shown) == <<shown.story.capcut.voiceOverScript>>

CopyContents(shown) ==
    {copyStoryContent(shown), voiceOverContent(shown), formattedScenes(shown)}

Downloads(shown) ==
    {[filename |-> "one-minute-story.txt", text |-> downloadStoryText(shown)],
     [filename |-> "capcut-voiceover.txt", text |-> voiceOverContent(shown)],
     [filename |-> "capcut-scenes.txt", text |-> formattedScenes(shown)]}

\* handleCopy(content): the clipboard takes the text, or refuses it.  The
\* text leaves the program; the state keeps how the last one left and how
\* many lines it had.
handleCopy ==
    /\ story # Null
    /\ \E content \in CopyContents(story) :
         \/ /\ exported' = [via |-> "clipboard", filename |-> "", lines |-> Len(content)]
            /\ error' = NoError
         \/ /\ error' = ClipboardMessage
            /\ UNCHANGED exported
    /\ UNCHANGED <<formState, story, isLoading, pc, reqInFlight, respInFlight, shownFor>>
    /\ UNCHANGED apiVars

\* handleDownload(filename, text): the text is saved through a temporary
\* link, which is removed again.
handleDownload ==
    /\ story # Null
    /\ \E file \in Downloads(story) :
         exported' = [via |-> "download", filename |-> file.filename, lines |-> Len(file.text)]
    /\ UNCHANGED <<formState, story, isLoading, error, pc, reqInFlight, respInFlight, shownFor>>
    /\ UNCHANGED apiVars

NoResult == [escaped |-> FALSE, calls |-> <<>>, responses |-> <<>>]
Pending == [handled |-> FALSE, run |-> NoResult]
Handled(run) == [handled |-> TRUE, run |-> run]

\* The route keeps nothing between requests: a behaviour starts with one
\* request received.
ApiInit ==
    /\ apiRequest \in Bodies
    /\ apiResult = Pending
    /\ apiPrev = NoResult
    /\ UiStart

\* The handler runs on the request.
ApiPost ==
    /\ ~apiResult.handled
    /\ \E now \in Instants : apiResult' = Handled(POST(apiRequest, now))
    /\ UNCHANGED <<apiRequest, apiPrev>>
    /\ UNCHANGED uiVars

\* The client posts the inputs object of the success envelope it received
\* back as the body of a new request.
ApiRepost ==
    /\ apiResult.handled
    /\ Len(apiResult.run.responses) = 1
    /\ apiResult.run.responses[1].body.ok
    /\ apiRequest' = inputsBody(apiResult.run.responses[1].body.inputs)
    /\ apiResult' = Pending
    /\ apiPrev' = apiResult.run
    /\ UNCHANGED uiVars

ApiNext == ApiPost \/ ApiRepost

SpecApi == ApiInit /\ [][ApiNext]_vars

\* The view alone: the route is reached through fetch.
UiInit ==
    /\ apiRequest = ScalarBody
    /\ apiResult = Pending
    /\ apiPrev = NoResult
    /\ UiStart

UiNext ==
    \/ \E name \in FieldNames : \E value \in FormChoices[name] : setFormState(name, value)
    \/ handleSubmit
    \/ routeResponds
    \/ fetchResolves
    \/ fetchRejects
    \/ jsonResolves
    \/ jsonRejects
    \/ handleCopy
    \/ handleDownload

SpecUi == UiInit /\ [][UiNext]_vars

\* A request the browser has sent settles: fetch resolves or rejects, and
\* the reading of a response body ends.
SpecUiFair ==
    /\ SpecUi
    /\ WF_vars(fetchResolves \/ fetchRejects)
    /\ WF_vars(jsonResolves \/ jsonRejects)

\* ======================================================= claims: the route
\* The one response of a handled request (read only where there is one).
apiResponse == apiResult.run.responses[1]
apiCalls == apiResult.run.calls
apiSucceeded ==
    /\ apiResult.handled
    /\ Len(apiResult.run.responses) = 1
    /\ apiResponse.body.ok

\* s holds white space only (the empty string included).
Blank(s) == \A i \in 1..Len(s) : s[i] = Space

\* t is s without its leading and trailing white space.
IsTrimOf(t, s) ==
    \E i \in 1..(Len(s) + 1), j \in 0..Len(s) :
        /\ t = SubSeq(s, i, j)
        /\ \A k \in 1..(i - 1) : s[k] = Space
        /\ \A k \in (j + 1)..Len(s) : s[k] = Space
        /\ t # <<>> => (t[1] # Space /\ t[Len(t)] # Space)

\* g is t with every upper-case letter replaced by its lower-case letter.
IsLowerOf(g, t) ==
    /\ Len(g) = Len(t)
    /\ \A k \in 1..Len(t) :
          IF \E n \in 1..Len(UpperLetters) : UpperLetters[n] = t[k]
          THEN \E n \in 1..Len(UpperLetters) : UpperLetters[n] = t[k] /\ g[k] = LowerLetters[n]
          ELSE g[k] = t[k]

IsTrimmedLowerOf(g, s) ==
    \E i \in 1..(Len(s) + 1), j \in 0..Len(s) :
        IsTrimOf(SubSeq(s, i, j), s) /\ IsLowerOf(g, SubSeq(s, i, j))

\* Every field of an object body is absent or a string.
AbsentOrStrings(body) ==
    /\ body.kind = "object"
    /\ \A name \in FieldNames : body[name].kind \in {"absent", "string"}

ResolvedAs(value, v, fallback) ==
    IF v.kind = "absent" \/ Blank(v.val) THEN value = fallback ELSE IsTrimOf(value, v.val)

\* C1: for a body whose four fields are each absent or a string, the
\* handler calls generateStory exactly once, with four non-empty strings:
\* genre the trimmed, lower-cased input or "adventure" when the input is
\* absent, empty or blank; setting, protagonist and vibe the trimmed input
\* or their fallback phrase when the input is absent, empty or blank.
C1_ResolvedInputs ==
    (apiResult.handled /\ AbsentOrStrings(apiRequest)) =>
        /\ Len(apiCalls) = 1
        /\ \A name \in FieldNames : apiCalls[1][name] # <<>>
        /\ IF apiRequest.genre.kind = "absent" \/ Blank(apiRequest.genre.val)
           THEN apiCalls[1].genre = <<"a", "d", "v", "e", "n", "t", "u", "r", "e">>
           ELSE IsTrimmedLowerOf(apiCalls[1].genre, apiRequest.genre.val)
        /\ ResolvedAs(apiCalls[1].setting, apiRequest.setting, DefaultSetting)
        /\ ResolvedAs(apiCalls[1].protagonist, apiRequest.protagonist, DefaultProtagonist)
        /\ ResolvedAs(apiCalls[1].vibe, apiRequest.vibe, DefaultVibe)

C1_Witness ==
    /\ apiResult.handled
    /\ AbsentOrStrings(apiRequest)
    /\ apiRequest.genre = JsonString(<<" ", "A">>)
    /\ apiRequest.setting = JsonString(<<"A", " ">>)
    /\ apiRequest.protagonist = JsonString(<<" ">>)
    /\ apiRequest.vibe = Absent
    /\ apiCalls = <<[genre |-> <<"a">>, setting |-> <<"A">>,
                     protagonist |-> DefaultProtagonist, vibe |-> DefaultVibe]>>

\* Body parsing and defaulting complete without an exception: the body is
\* JSON other than null and no field holds a value that is neither a
\* string nor null.  (generateStory does not throw on four non-empty
\* strings.)
Completes(body) ==
    /\ body.kind \in {"scalar", "object"}
    /\ body.kind = "object" =>
          \A name \in FieldNames : body[name].kind \in {"absent", "null", "string"}

\* C2: a handled request has exactly one response and no escaped
\* exception; the response is status 200 with ok = TRUE, generatedAt,
\* inputs and story when parsing, defaulting and generation complete, and
\* otherwise status 500 with ok = FALSE and the generic message only.
C2_TwoShapes ==
    apiResult.handled =>
        /\ ~apiResult.run.escaped
        /\ Len(apiResult.run.responses) = 1
        /\ IF Completes(apiRequest)
           THEN /\ apiResponse.status = 200
                /\ DOMAIN apiResponse.body = {"ok", "generatedAt", "inputs", "story"}
                /\ apiResponse.body.ok = TRUE
           ELSE /\ apiResponse.status = 500
                /\ DOMAIN apiResponse.body = {"ok", "error"}
                /\ apiResponse.body.ok = FALSE
                /\ apiResponse.body.error = GenericError

C2_Witness ==
    /\ apiResult.handled
    /\ apiRequest.kind = "object"
    /\ apiRequest.genre = JsonString(<<"a">>)
    /\ apiRequest.vibe = JsonNumber
    /\ apiResponse.status = 500

\* C3: in a success envelope, inputs is the four resolved values passed to
\* generateStory in that request, and story is what generateStory returns
\* for them.
C3_EnvelopeEchoesCall ==
    apiSucceeded =>
        /\ Len(apiCalls) = 1
        /\ apiResponse.body.inputs = apiCalls[1]
        /\ apiResponse.body.story = generateStory(apiCalls[1])

C3_Witness ==
    /\ apiSucceeded
    /\ apiRequest.kind = "object"
    /\ apiRequest.genre = JsonString(<<"A", " ">>)
    /\ apiRequest.setting = JsonString(<<" ", "A">>)
    /\ apiResponse.body.inputs.genre = <<"a">>
    /\ apiResponse.body.inputs.setting = <<"A">>

\* C10: when a request posts a success envelope's inputs back, the handler
\* calls generateStory with the arguments of the run that produced the
\* envelope.
C10_ResolutionIdempotent ==
    (apiResult.handled /\ apiPrev # NoResult) => apiCalls = apiPrev.calls

C10_Witness ==
    /\ apiResult.handled
    /\ apiPrev # NoResult
    /\ Len(apiCalls) = 1
    /\ apiCalls[1].genre = <<"a", "a">>
    /\ apiCalls[1].setting = DefaultSetting
    /\ apiCalls[1].protagonist = <<"A">>

\* C4: the scene timeline of every success response has exactly 12 scenes
\* of positive duration that sum to 60 seconds; the first starts at 00:00,
\* the last ends at 01:00, and each scene ends where the next one starts.
C4_Timeline ==
    apiSucceeded =>
        LET scenes == apiResponse.body.story.capcut.scenes
        IN  /\ Len(scenes) = 12
            /\ \A i \in 1..Len(scenes) : scenes[i].durationSeconds > 0
            /\ Sum([i \in 1..Len(scenes) |-> scenes[i].durationSeconds]) = 60
            /\ scenes[1].start = <<"0", "0", ":", "0", "0">>
            /\ scenes[Len(scenes)].end = <<"0", "1", ":", "0", "0">>
            /\ \A i \in 1..(Len(scenes) - 1) : scenes[i].end = scenes[i + 1].start

C4_Witness ==
    /\ apiSucceeded
    /\ Len(apiResponse.body.story.capcut.scenes) = 12
    /\ apiResponse.body.story.capcut.scenes[12].start = <<"0", "0", ":", "5", "5">>
    /\ apiResponse.body.inputs.setting = <<"a", "A">>

\* The trimmed, lower-cased genre is none of the catalog's keys.
OutsideCatalog(s) ==
    \A i \in 1..Len(Bundles) : ~IsTrimmedLowerOf(Bundles[i].key, s)

\* The genre is forwarded trimmed and lower-cased, the response is the
\* success envelope, and tone and pace are the adventure bundle's.
ForwardedWithDefaultBundle ==
    /\ Len(apiCalls) = 1
    /\ IsTrimmedLowerOf(apiCalls[1].genre, apiRequest.genre.val)
    /\ Len(apiResult.run.responses) = 1
    /\ apiResponse.status = 200
    /\ apiResponse.body.ok = TRUE
    /\ apiResponse.body.story.tone = resolveBundle(adventure).tone
    /\ apiResponse.body.story.pace = resolveBundle(adventure).pace

\* C6 as stated: a request whose genre is any non-empty string outside the
\* catalog is forwarded (trimmed and lower-cased, not replaced by the
\* default), succeeds, and has the adventure bundle's tone and pace.
C6_AsStated ==
    (/\ apiResult.handled
     /\ AbsentOrStrings(apiRequest)
     /\ apiRequest.genre.kind = "string"
     /\ apiRequest.genre.val # <<>>
     /\ OutsideCatalog(apiRequest.genre.val)) => ForwardedWithDefaultBundle

\* C6: a request whose genre is a string outside the catalog that holds
\* more than white space (its other fields absent or strings) is forwarded
\* trimmed and lower-cased, succeeds, and has the adventure bundle's tone
\* and pace.
C6_UnknownGenreFallsBack ==
    (/\ apiResult.handled
     /\ AbsentOrStrings(apiRequest)
     /\ apiRequest.genre.kind = "string"
     /\ ~Blank(apiRequest.genre.val)
     /\ OutsideCatalog(apiRequest.genre.val)) => ForwardedWithDefaultBundle

C6_Witness ==
    /\ apiResult.handled
    /\ AbsentOrStrings(apiRequest)
    /\ apiRequest.genre = JsonString(<<"A", "a">>)
    /\ apiCalls[1].genre = <<"a", "a">>
    /\ apiResponse.body.story.tone = "bold"

\* ======================================================== claims: the view
\* The voice-over lines of a scene breakdown, without their label, in order.
VoiceOverLines(breakdown) ==
    LET picked == SelectSeq(breakdown, LAMBDA l : l # EmptyLine /\ Head(l) = "Voice Over: ")
    IN  [i \in 1..Len(picked) |-> Tail(picked[i])]

\* C7: the voice-over script of a displayed story is the join, in scene
\* index order, of the scenes' voice-over lines, and the text the view
\* copies or downloads as the script is word for word the Voice Over lines
\* of its scene breakdown.
C7_ScriptMatchesScenes ==
    story # Null =>
        LET scenes == story.story.capcut.scenes
        IN  /\ \A i \in 1..Len(scenes) : scenes[i].index = i
            /\ story.story.capcut.voiceOverScript
                   = Join([i \in 1..Len(scenes) |-> scenes[i].voiceOver], <<" ">>)
            /\ Len(VoiceOverLines(formattedScenes(story))) = Len(scenes)
            /\ voiceOverContent(story) = <<Join(VoiceOverLines(formattedScenes(story)), <<" ">>)>>

C7_Witness ==
    /\ story # Null
    /\ exported # Null
    /\ exported.filename = "capcut-scenes.txt"
    /\ exported.lines = Len(formattedScenes(story))
    /\ Len(story.story.capcut.scenes) = 12

\* C8: while a submission is under way isLoading is true, from the step
\* that sends the request on; once it has settled, on any path, isLoading
\* is false; and a loading view always comes to rest.
C8_LoadingLifecycle ==
    /\ []((pc # "idle" \/ reqInFlight # Null) => isLoading)
    /\ [](pc = "idle" => ~isLoading)
    /\ (isLoading ~> ~isLoading)

C8_Witness ==
    /\ pc = "idle"
    /\ ~isLoading
    /\ error = SnagMessage
    /\ story # Null

\* A step that ends a submission.
Settles == pc # "idle" /\ pc' = "idle"

\* C9: the displayed story changes only in the step that reads the body of
\* an ok response, and becomes that body; a submission that settles
\* otherwise sets error to the snag message and keeps the story; a step of
\* handleCopy or handleDownload changes neither story nor isLoading.
C9_StoryFrame ==
    [][/\ story' # story =>
             /\ pc = "awaitJson"
             /\ respInFlight # Null
             /\ responseOk(respInFlight)
             /\ story' = respInFlight.body
       /\ Settles =>
             \/ /\ pc = "awaitJson"
                /\ story' = respInFlight.body
                /\ error' = error
             \/ /\ error' = SnagMessage
                /\ story' = story
       /\ (exported' # exported \/ (pc' = pc /\ error' # error)) =>
             /\ story' = story
             /\ isLoading' = isLoading]_vars

C9_Witness ==
    /\ story # Null
    /\ error = SnagMessage
    /\ exported # Null
    /\ exported.via = "clipboard"
    /\ pc = "idle"

\* The displayed story is replaced by the response to a request with the
\* same fields.
Resubmitted ==
    /\ story # Null
    /\ pc = "awaitJson"
    /\ pc' = "idle"
    /\ story' # Null
    /\ shownFor' = shownFor

====
